---------------------------- MODULE Spec2Model ----------------------------
(***************************************************************************)
(* A model of the Snowflake ID generator of src/sn1/snowflake.go.          *)
(*                                                                         *)
(* TLC's integers are 32 bits wide, so the 64-bit ID and its 39/8/16-bit   *)
(* fields are modelled at reduced widths: Uint64Bits stands for the 64     *)
(* bits of uint64/int64, TimeBits and SeqBits for the 39 and 8 bits of the *)
(* time and sequence fields, and UnitNs for the 1e7 nanoseconds of one     *)
(* time unit.  Every definition below is written in terms of the widths,   *)
(* exactly as the source is written in terms of its constants.             *)
(***************************************************************************)
EXTENDS Integers, Sequences, FiniteSets, TLC

\* ------------------------------------------------------------------ bounds
Uint64Bits == 7
TimeBits == 2
SeqBits == 1
UnitNs == 2
MaxCalls == 4

Gens == {1, 2}
Callers == {1, 2}

\* ------------------------------------------------- constants of the package
BitLenTime == TimeBits
BitLenSequence == SeqBits
BitLenMachineID == (Uint64Bits - 1) - BitLenTime - BitLenSequence
SnowflakeTimeUnit == UnitNs

\* The width of uint16, the type of the sequence and machineID fields; in
\* the source it is the width of the machine id field (63 - 39 - 8 = 16).
\* The sequence field (8 bits) fits a uint16: Uint64Bits is chosen so that
\* BitLenSequence <= Uint16Bits.
Uint16Bits == BitLenMachineID

\* ------------------------------------------------------------ Go arithmetic
Pow2(n) == 2 ^ n

\* uint64(x): the value of x reduced to the unsigned word.
Uint64(x) == x % Pow2(Uint64Bits)

\* int64(x): the value of x wrapped into the signed word.
Int64(x) ==
  LET u == x % Pow2(Uint64Bits)
  IN  IF u >= Pow2(Uint64Bits - 1) THEN u - Pow2(Uint64Bits) ELSE u

\* uint16(x)
Uint16(x) == x % Pow2(Uint16Bits)

\* Go's integer division truncates toward zero; the remainder has the sign
\* of the dividend.
GoDiv(a, b) == IF a >= 0 THEN a \div b ELSE -((-a) \div b)
GoMod(a, b) == a - b * GoDiv(a, b)

\* x << n and x >> n on uint64
Shl(x, n) == (x * Pow2(n)) % Pow2(Uint64Bits)
Shr(x, n) == x \div Pow2(n)

RECURSIVE BitOr(_, _)
BitOr(a, b) ==
  IF a = 0 THEN b
  ELSE IF b = 0 THEN a
  ELSE (IF a % 2 = 1 \/ b % 2 = 1 THEN 1 ELSE 0) + 2 * BitOr(a \div 2, b \div 2)

RECURSIVE BitAnd(_, _)
BitAnd(a, b) ==
  IF a = 0 \/ b = 0 THEN 0
  ELSE (IF a % 2 = 1 /\ b % 2 = 1 THEN 1 ELSE 0) + 2 * BitAnd(a \div 2, b \div 2)

\* ------------------------------------------------------------ time helpers
\* toSnowflakeTime, on the UnixNano value of its argument
toSnowflakeTime(nano) == GoDiv(nano, SnowflakeTimeUnit)

\* currentElapsedTime, with the reading of time.Now() as a parameter
currentElapsedTime(start, nowNs) == toSnowflakeTime(nowNs) - start

\* A sleepTime that adds the part of the time unit already gone.
sleepTimeAdds(over, nowNs) ==
  Int64(Int64(over * SnowflakeTimeUnit) + GoMod(nowNs, SnowflakeTimeUnit))

\* A sleepTime that counts one time unit too few.
sleepTimeOneShort(over, nowNs) ==
  Int64(Int64((over - 1) * SnowflakeTimeUnit) - GoMod(nowNs, SnowflakeTimeUnit))

\* A sleepTime that sleeps to the end of the current time unit only.
sleepTimeOneUnit(over, nowNs) ==
  Int64(SnowflakeTimeUnit - GoMod(nowNs, SnowflakeTimeUnit))

\* sleepTime, with the reading of time.Now() as a parameter
sleepTime(over, nowNs) ==
  Int64(Int64(over * SnowflakeTimeUnit) - GoMod(nowNs, SnowflakeTimeUnit))

\* ------------------------------------------------------- encode and decode
maskSequence16 == Uint16(Pow2(BitLenSequence) - 1)

\* The encoding step, the expression toID returns
encode(elapsed, seq, mid) ==
  BitOr(BitOr(Shl(Uint64(elapsed), BitLenSequence + BitLenMachineID),
              Shl(Uint64(seq), BitLenMachineID)),
        Uint64(mid))

\* A toID without the check of the time limit.
toIDNoLimit(elapsed, seq, mid) == [id |-> encode(elapsed, seq, mid), err |-> "nil"]

\* A toID that lets the first tick past the time field through.
toIDLateLimit(elapsed, seq, mid) ==
  IF elapsed > Pow2(BitLenTime)
  THEN [id |-> 0, err |-> "ErrOverTimeLimit"]
  ELSE [id |-> BitOr(BitOr(Shl(Uint64(elapsed), BitLenSequence + BitLenMachineID),
                           Shl(Uint64(seq), BitLenMachineID)),
                     Uint64(mid)),
        err |-> "nil"]

\* A toID that puts the machine id one bit too high.
toIDShiftedMachine(elapsed, seq, mid) ==
  IF elapsed >= Pow2(BitLenTime)
  THEN [id |-> 0, err |-> "ErrOverTimeLimit"]
  ELSE [id |-> BitOr(BitOr(Shl(Uint64(elapsed), BitLenSequence + BitLenMachineID),
                           Shl(Uint64(seq), BitLenMachineID)),
                     Shl(Uint64(mid), 1)),
        err |-> "nil"]

\* A toID that leaves the machine id out.
toIDNoMachine(elapsed, seq, mid) ==
  IF elapsed >= Pow2(BitLenTime)
  THEN [id |-> 0, err |-> "ErrOverTimeLimit"]
  ELSE [id |-> BitOr(Shl(Uint64(elapsed), BitLenSequence + BitLenMachineID),
                     Shl(Uint64(seq), BitLenMachineID)),
        err |-> "nil"]

\* Snowflake.toID on the three fields it reads
toID(elapsed, seq, mid) ==
  IF elapsed >= Pow2(BitLenTime)
  THEN [id |-> 0, err |-> "ErrOverTimeLimit"]
  ELSE [id |-> encode(elapsed, seq, mid), err |-> "nil"]

\* elapsedTime(id), the unexported decoder
elapsedTimeOf(id) == Shr(id, BitLenSequence + BitLenMachineID)

\* A SequenceNumber that shifts without masking.
SequenceNumberNoMask(id) == Shr(id, BitLenMachineID)

SequenceNumber(id) ==
  LET maskSequence == Uint64(Shl(Pow2(BitLenSequence) - 1, BitLenMachineID))
  IN  Shr(BitAnd(id, maskSequence), BitLenMachineID)

MachineID(id) ==
  LET maskMachineID == Uint64(Pow2(BitLenMachineID) - 1)
  IN  BitAnd(id, maskMachineID)

Decompose(id) ==
  [id |-> id,
   msb |-> Shr(id, Uint64Bits - 1),
   time |-> elapsedTimeOf(id),
   sequence |-> SequenceNumber(id),
   machine_id |-> MachineID(id)]

\* ------------------------------------------------------ the NextID update
\* A NextID that does not advance elapsedTime when the sequence wraps.
NextTickNoAdvance(elapsed, seq, current) ==
  IF elapsed < current
  THEN [elapsedTime |-> current, sequence |-> 0, wrapped |-> FALSE]
  ELSE LET s == BitAnd(Uint16(seq + 1), maskSequence16)
       IN  [elapsedTime |-> elapsed, sequence |-> s, wrapped |-> s = 0]

\* A NextID that follows the clock when it has moved backward.
NextTickFollowsClock(elapsed, seq, current) ==
  IF elapsed # current
  THEN [elapsedTime |-> current, sequence |-> 0, wrapped |-> FALSE]
  ELSE LET s == BitAnd(Uint16(seq + 1), maskSequence16)
       IN  IF s = 0
           THEN [elapsedTime |-> Int64(elapsed + 1), sequence |-> s, wrapped |-> TRUE]
           ELSE [elapsedTime |-> elapsed, sequence |-> s, wrapped |-> FALSE]

\* A NextID that keeps the sequence when the clock has advanced.
NextTickKeepsSequence(elapsed, seq, current) ==
  IF elapsed < current
  THEN [elapsedTime |-> current, sequence |-> seq, wrapped |-> FALSE]
  ELSE LET s == BitAnd(Uint16(seq + 1), maskSequence16)
       IN  IF s = 0
           THEN [elapsedTime |-> Int64(elapsed + 1), sequence |-> s, wrapped |-> TRUE]
           ELSE [elapsedTime |-> elapsed, sequence |-> s, wrapped |-> FALSE]

\* A NextID that increments the sequence without masking it.
NextTickNoMask(elapsed, seq, current) ==
  IF elapsed < current
  THEN [elapsedTime |-> current, sequence |-> 0, wrapped |-> FALSE]
  ELSE LET s == Uint16(seq + 1)
       IN  IF s = 0
           THEN [elapsedTime |-> Int64(elapsed + 1), sequence |-> s, wrapped |-> TRUE]
           ELSE [elapsedTime |-> elapsed, sequence |-> s, wrapped |-> FALSE]

\* A NextID that numbers the IDs of a new tick from 1.
NextTickStartsAtOne(elapsed, seq, current) ==
  IF elapsed < current
  THEN [elapsedTime |-> current, sequence |-> 1, wrapped |-> FALSE]
  ELSE LET s == BitAnd(Uint16(seq + 1), maskSequence16)
       IN  IF s = 0
           THEN [elapsedTime |-> Int64(elapsed + 1), sequence |-> s, wrapped |-> TRUE]
           ELSE [elapsedTime |-> elapsed, sequence |-> s, wrapped |-> FALSE]

\* A NextID that advances elapsedTime by two when the sequence wraps.
NextTickSkipsTick(elapsed, seq, current) ==
  IF elapsed < current
  THEN [elapsedTime |-> current, sequence |-> 0, wrapped |-> FALSE]
  ELSE LET s == BitAnd(Uint16(seq + 1), maskSequence16)
       IN  IF s = 0
           THEN [elapsedTime |-> Int64(elapsed + 2), sequence |-> s, wrapped |-> TRUE]
           ELSE [elapsedTime |-> elapsed, sequence |-> s, wrapped |-> FALSE]

\* The branch of NextID between the clock reading and the sleep: the new
\* elapsedTime and sequence, and whether the sequence wrapped.
NextTick(elapsed, seq, current) ==
  IF elapsed < current
  THEN [elapsedTime |-> current, sequence |-> 0, wrapped |-> FALSE]
  ELSE LET s == BitAnd(Uint16(seq + 1), maskSequence16)
       IN  IF s = 0
           THEN [elapsedTime |-> Int64(elapsed + 1), sequence |-> s, wrapped |-> TRUE]
           ELSE [elapsedTime |-> elapsed, sequence |-> s, wrapped |-> FALSE]

\* ------------------------------------------------------------ construction
ErrCodes == {"nil", "ErrStartTimeAhead", "ErrNoPrivateAddress", "ErrOverTimeLimit",
             "ErrInvalidMachineID", "ErrSupplier", "ErrInterfaceAddrs"}

\* UnixNano of time.Date(2014, 9, 1, ...), the default start time, placed
\* one and a half time units after the Unix epoch of the reduced clock.
DefaultStartNano == SnowflakeTimeUnit + (SnowflakeTimeUnit \div 2)

\* isPrivateIPv4 on the result of To4(): << >> is the nil address.
isPrivateIPv4(ip) ==
  /\ ip # << >>
  /\ \/ ip[1] = 10
     \/ ip[1] = 172 /\ (ip[2] >= 16 /\ ip[2] < 32)
     \/ ip[1] = 192 /\ ip[2] = 168
     \/ ip[1] = 169 /\ ip[2] = 254

\* net.IP.IsLoopback on an IPv4 address
IsLoopback(ip) == ip # << >> /\ ip[1] = 127

\* privateIPv4: the first address of the list that is an *net.IPNet, not a
\* loopback address, and private.  ifaces is what interfaceAddrs() returned.
RECURSIVE scanAddrs(_)
scanAddrs(as) ==
  IF as = << >> THEN [ip |-> << >>, err |-> "ErrNoPrivateAddress"]
  ELSE LET a == Head(as)
       IN  IF ~a.ipnet \/ IsLoopback(a.ip) THEN scanAddrs(Tail(as))
           ELSE IF isPrivateIPv4(a.ip) THEN [ip |-> a.ip, err |-> "nil"]
           ELSE scanAddrs(Tail(as))

privateIPv4(ifaces) ==
  IF ifaces.err # "nil" THEN [ip |-> << >>, err |-> ifaces.err]
  ELSE scanAddrs(ifaces.addrs)

\* A byte of an address holds half the bits of the uint16 it is packed into.
ByteBits == Uint16Bits \div 2

lower16BitPrivateIP(ifaces) ==
  LET r == privateIPv4(ifaces)
  IN  IF r.err # "nil" THEN [id |-> 0, err |-> r.err]
      ELSE [id |-> Uint16(Uint16(r.ip[3] * Pow2(ByteBits)) + r.ip[4]), err |-> "nil"]

\* An After that also holds of the current time.
StartTimeNotBefore(st, nowNs) == ~st.zero /\ st.nano >= nowNs

\* time.Time.After for Settings.StartTime: the zero Time is year 1, before
\* every reading of the clock.
StartTimeAfter(st, nowNs) == ~st.zero /\ st.nano > nowNs

\* New.  st is the Settings: StartTime [zero, nano], MachineID [isNil, id, err]
\* (what the supplier returns) and CheckMachineID [isNil, accept] (the set of
\* identifiers the validator accepts).  The result is the returned pointer
\* (ready or nil), the returned error, the fields of the new Snowflake, and
\* the arguments CheckMachineID was called with.
NewFailed(e, chk) ==
  [sf |-> "nil", err |-> e, startTime |-> 0, elapsedTime |-> 0,
   sequence |-> 0, machineID |-> 0, checked |-> chk]

\* A New that starts the sequence at 0.
NewSequenceZero(st, nowNs, ifaces) ==
  IF StartTimeAfter(st.StartTime, nowNs) THEN NewFailed("ErrStartTimeAhead", << >>)
  ELSE
    LET start == IF st.StartTime.zero THEN toSnowflakeTime(DefaultStartNano)
                 ELSE toSnowflakeTime(st.StartTime.nano)
        m == IF st.MachineID.isNil THEN lower16BitPrivateIP(ifaces)
             ELSE [id |-> st.MachineID.id, err |-> st.MachineID.err]
    IN  IF m.err # "nil" THEN NewFailed(m.err, << >>)
        ELSE IF ~st.CheckMachineID.isNil /\ m.id \notin st.CheckMachineID.accept
             THEN NewFailed("ErrInvalidMachineID", <<m.id>>)
        ELSE [sf |-> "ready", err |-> "nil", startTime |-> start, elapsedTime |-> 0,
              sequence |-> 0, machineID |-> m.id,
              checked |-> IF st.CheckMachineID.isNil THEN << >> ELSE <<m.id>>]

New(st, nowNs, ifaces) ==
  IF StartTimeAfter(st.StartTime, nowNs) THEN NewFailed("ErrStartTimeAhead", << >>)
  ELSE
    LET start == IF st.StartTime.zero THEN toSnowflakeTime(DefaultStartNano)
                 ELSE toSnowflakeTime(st.StartTime.nano)
        m == IF st.MachineID.isNil THEN lower16BitPrivateIP(ifaces)
             ELSE [id |-> st.MachineID.id, err |-> st.MachineID.err]
    IN  IF m.err # "nil" THEN NewFailed(m.err, << >>)
        ELSE IF ~st.CheckMachineID.isNil /\ m.id \notin st.CheckMachineID.accept
             THEN NewFailed("ErrInvalidMachineID", <<m.id>>)
        ELSE [sf |-> "ready", err |-> "nil", startTime |-> start, elapsedTime |-> 0,
              sequence |-> Uint16(Pow2(BitLenSequence) - 1), machineID |-> m.id,
              checked |-> IF st.CheckMachineID.isNil THEN << >> ELSE <<m.id>>]

\* NewSnowflake: New with the error dropped.
NewSnowflake(st, nowNs, ifaces) == [New(st, nowNs, ifaces) EXCEPT !.err = "nil"]

\* ------------------------------------------------------- inputs of New
MachineIDs == {0, Pow2(BitLenMachineID) - 1}
AllMachineIDs == 0 .. (Pow2(Uint16Bits) - 1)

\* The readings of the clock (UnixNano): from one time unit before the Unix
\* epoch to past the end of the time field.
MinNow == -SnowflakeTimeUnit
MaxNow == (Pow2(BitLenTime) + 2) * SnowflakeTimeUnit - 1
Nanos == MinNow .. MaxNow

StartTimes ==
  {[zero |-> TRUE, nano |-> 0]}
    \cup {[zero |-> FALSE, nano |-> n] : n \in {0, SnowflakeTimeUnit + 1}}

Suppliers ==
  {[isNil |-> TRUE, id |-> 0, err |-> "nil"]}
    \cup {[isNil |-> FALSE, id |-> m, err |-> "nil"] : m \in MachineIDs}
    \cup {[isNil |-> FALSE, id |-> 0, err |-> "ErrSupplier"]}

Validators ==
  {[isNil |-> TRUE, accept |-> {}]}
    \cup {[isNil |-> FALSE, accept |-> a] : a \in {{}, {0}, AllMachineIDs}}

SettingsSet ==
  [StartTime : StartTimes, MachineID : Suppliers, CheckMachineID : Validators]

Addr(isNet, ip) == [ipnet |-> isNet, ip |-> ip]

\* What interfaceAddrs() may return: an error, or a list of addresses.
Ifaces ==
  {[err |-> "ErrInterfaceAddrs", addrs |-> << >>],
   [err |-> "nil", addrs |-> << >>],
   [err |-> "nil", addrs |-> <<Addr(TRUE, <<127, 0, 0, 1>>), Addr(TRUE, <<8, 8, 1, 1>>),
                              Addr(FALSE, <<10, 0, 1, 1>>), Addr(TRUE, << >>)>>],
   [err |-> "nil", addrs |-> <<Addr(TRUE, <<127, 0, 0, 1>>), Addr(TRUE, <<172, 32, 0, 1>>),
                              Addr(TRUE, <<172, 16, 1, 1>>), Addr(TRUE, <<10, 0, 0, 0>>)>>],
   [err |-> "nil", addrs |-> <<Addr(TRUE, <<10, 0, 0, 0>>)>>],
   [err |-> "nil", addrs |-> <<Addr(TRUE, <<192, 168, 0, 0>>)>>],
   [err |-> "nil", addrs |-> <<Addr(TRUE, <<169, 254, 1, 1>>)>>]}

NoSettings ==
  [StartTime |-> [zero |-> TRUE, nano |-> 0],
   MachineID |-> [isNil |-> TRUE, id |-> 0, err |-> "nil"],
   CheckMachineID |-> [isNil |-> TRUE, accept |-> {}]]
NoCall ==
  [ctor |-> "none", st |-> NoSettings, nowNs |-> 0,
   ifaces |-> [err |-> "nil", addrs |-> << >>], checked |-> << >>, err |-> "nil"]

\* ------------------------------------------------------------------- state
VARIABLES
  sf,           \* sf[g]: "none" before construction, then "ready" or "nil"
  newErr,       \* newErr[g]: the error the constructor returned
  newCall,      \* newCall[g]: the constructor call and what it did, where recorded
  mutex,        \* mutex[g]: the caller holding sf.mutex, 0 when unlocked
  startTime,    \* sf.startTime
  elapsedTime,  \* sf.elapsedTime
  sequence,     \* sf.sequence
  machineID,    \* sf.machineID
  pc,           \* pc[c]: where caller c is in NextID
  overtime,     \* overtime[c]: the local variable of NextID
  sleepLeft,    \* sleepLeft[c]: the duration of the caller's time.Sleep
  sleepNow,     \* sleepNow[c]: the clock reading sleepTime computed it from
  returns,      \* returns[g]: what the NextID calls returned, in order
  panicked,     \* a nil pointer was dereferenced
  arg,          \* the argument of a decode or encode step
  out,          \* and its result
  now,          \* the wall clock time.Now() reads (UnixNano), where it is kept
  hist,         \* what the wall clock has done since the construction
  steady,       \* the wall clock ran at its rate since the call inside read it
  entry         \* the tick the call inside read on entry, and the branch it took

vars == <<sf, newErr, newCall, mutex, startTime, elapsedTime, sequence,
          machineID, pc, overtime, sleepLeft, sleepNow, returns, panicked, arg, out,
          now, hist, steady, entry>>

genVars == <<sf, newErr, newCall, startTime, elapsedTime, sequence, machineID>>
callVars == <<pc, overtime, sleepLeft, sleepNow, mutex, returns, panicked>>
pureVars == <<arg, out>>
clockVars == <<now, hist, steady, entry>>

NoArg == [op |-> "none", id |-> 0, time |-> 0, sequence |-> 0, machine_id |-> 0]
NoOut == [done |-> FALSE, id |-> 0, msb |-> 0, time |-> 0, sequence |-> 0,
          machine_id |-> 0, enc |-> 0, err |-> "nil"]

\* The generator all callers of Spec share: the first one.
G == CHOOSE g \in Gens : \A h \in Gens : g <= h

InitGen ==
  /\ sf = [g \in Gens |-> "none"]
  /\ newErr = [g \in Gens |-> "nil"]
  /\ newCall = [g \in Gens |-> NoCall]
  /\ mutex = [g \in Gens |-> 0]
  /\ startTime = [g \in Gens |-> 0]
  /\ elapsedTime = [g \in Gens |-> 0]
  /\ sequence = [g \in Gens |-> 0]
  /\ machineID = [g \in Gens |-> 0]
  /\ pc = [c \in Callers |-> "idle"]
  /\ overtime = [c \in Callers |-> 0]
  /\ sleepLeft = [c \in Callers |-> 0]
  /\ sleepNow = [c \in Callers |-> 0]
  /\ returns = [g \in Gens |-> << >>]
  /\ panicked = FALSE

NoEntry == [tick |-> 0, wrapped |-> FALSE]

\* The clock variables where every reading of the clock is free.
FreeClock == now = 0 /\ hist = "steady" /\ steady = FALSE /\ entry = NoEntry

Init == InitGen /\ arg = NoArg /\ out = NoOut /\ FreeClock

\* ------------------------------------------------------------ construction
\* The effect of a constructor call on generator g.
Constructed(g, r) ==
  /\ sf' = [sf EXCEPT ![g] = r.sf]
  /\ newErr' = [newErr EXCEPT ![g] = r.err]
  /\ startTime' = [startTime EXCEPT ![g] = r.startTime]
  /\ elapsedTime' = [elapsedTime EXCEPT ![g] = r.elapsedTime]
  /\ sequence' = [sequence EXCEPT ![g] = r.sequence]
  /\ machineID' = [machineID EXCEPT ![g] = r.machineID]

\* A call of New with its Settings among sts, where time.Now() reads t.
CallNewAt(g, sts, t) ==
  /\ sf[g] = "none"
  /\ \E st \in sts, ifaces \in Ifaces :
       Constructed(g, New(st, t, ifaces))
  /\ UNCHANGED <<newCall, callVars, pureVars>>

\* A call of New at any reading of the clock.
CallNew(g) == (\E t \in Nanos : CallNewAt(g, SettingsSet, t)) /\ UNCHANGED clockVars

CallNewSnowflake(g) ==
  /\ sf[g] = "none"
  /\ \E st \in SettingsSet, t \in Nanos, ifaces \in Ifaces :
       Constructed(g, NewSnowflake(st, t, ifaces))
  /\ UNCHANGED <<newCall, callVars, pureVars, clockVars>>

\* ------------------------------------------------------------------ NextID
Started(g) == Len(returns[g]) + Cardinality({c \in Callers : pc[c] # "idle"})

\* A caller calls NextID on what the constructor returned.  On a nil
\* *Snowflake the read of sf.mutex dereferences the nil pointer.
Call(c) ==
  /\ pc[c] = "idle"
  /\ sf[G] # "none"
  /\ ~panicked
  /\ Started(G) < MaxCalls
  /\ IF sf[G] = "nil"
     THEN /\ pc' = [pc EXCEPT ![c] = "panic"]
          /\ panicked' = TRUE
     ELSE /\ pc' = [pc EXCEPT ![c] = "lock"]
          /\ UNCHANGED panicked
  /\ UNCHANGED <<genVars, overtime, sleepLeft, sleepNow, mutex, returns, pureVars, clockVars>>

\* A Lock that does not wait for the mutex to be free.
LockNoWait(c) ==
  /\ pc[c] = "lock"
  /\ mutex' = [mutex EXCEPT ![G] = c]
  /\ pc' = [pc EXCEPT ![c] = "update"]
  /\ UNCHANGED <<genVars, overtime, sleepLeft, sleepNow, returns, panicked, pureVars, clockVars>>

\* sf.mutex.Lock()
Lock(c) ==
  /\ pc[c] = "lock"
  /\ mutex[G] = 0
  /\ mutex' = [mutex EXCEPT ![G] = c]
  /\ pc' = [pc EXCEPT ![c] = "update"]
  /\ UNCHANGED <<genVars, overtime, sleepLeft, sleepNow, returns, panicked, pureVars, clockVars>>

\* The clock reading t and the update of elapsedTime and sequence.
UpdateAt(c, t) ==
  /\ pc[c] = "update"
  /\ LET current == currentElapsedTime(startTime[G], t)
         n == NextTick(elapsedTime[G], sequence[G], current)
     IN  /\ elapsedTime' = [elapsedTime EXCEPT ![G] = n.elapsedTime]
         /\ sequence' = [sequence EXCEPT ![G] = n.sequence]
         /\ IF n.wrapped
            THEN /\ overtime' = [overtime EXCEPT ![c] = Int64(n.elapsedTime - current)]
                 /\ pc' = [pc EXCEPT ![c] = "sleep"]
            ELSE /\ UNCHANGED overtime
                 /\ pc' = [pc EXCEPT ![c] = "toID"]
  /\ UNCHANGED <<sf, newErr, newCall, startTime, machineID, sleepLeft, sleepNow,
                 mutex, returns, panicked, pureVars>>

\* The update where the clock is free: it may read any value at any call.
Update(c) == (\E t \in Nanos : UpdateAt(c, t)) /\ UNCHANGED clockVars

\* sleepTime(overtime) reads the clock again, t, and time.Sleep starts.
SleepAt(c, t) ==
  /\ pc[c] = "sleep"
  /\ sleepLeft' = [sleepLeft EXCEPT ![c] = sleepTime(overtime[c], t)]
  /\ sleepNow' = [sleepNow EXCEPT ![c] = t]
  /\ pc' = [pc EXCEPT ![c] = "sleeping"]
  /\ UNCHANGED <<genVars, overtime, mutex, returns, panicked, pureVars>>

Sleep(c) == (\E t \in Nanos : SleepAt(c, t)) /\ UNCHANGED clockVars

\* time.Sleep returns.
Woken(c) ==
  /\ pc[c] = "sleeping"
  /\ sleepLeft' = [sleepLeft EXCEPT ![c] = 0]
  /\ sleepNow' = [sleepNow EXCEPT ![c] = 0]
  /\ overtime' = [overtime EXCEPT ![c] = 0]
  /\ pc' = [pc EXCEPT ![c] = "toID"]
  /\ UNCHANGED <<genVars, mutex, returns, panicked, pureVars>>

Wake(c) == Woken(c) /\ UNCHANGED clockVars

\* A return that unlocks the mutex on the success path only.
ReturnKeepsLockOnError(c) ==
  /\ pc[c] = "toID"
  /\ LET r == toID(elapsedTime[G], sequence[G], machineID[G])
     IN  /\ returns' = [returns EXCEPT ![G] = Append(@, r)]
         /\ mutex' = [mutex EXCEPT ![G] = IF r.err = "nil" THEN 0 ELSE @]
  /\ pc' = [pc EXCEPT ![c] = "idle"]
  /\ UNCHANGED <<genVars, overtime, sleepLeft, sleepNow, panicked, pureVars, clockVars>>

\* return sf.toID(), and the deferred sf.mutex.Unlock()
Returned(c) ==
  /\ pc[c] = "toID"
  /\ returns' = [returns EXCEPT ![G] =
                    Append(@, toID(elapsedTime[G], sequence[G], machineID[G]))]
  /\ mutex' = [mutex EXCEPT ![G] = 0]
  /\ pc' = [pc EXCEPT ![c] = "idle"]
  /\ UNCHANGED <<genVars, overtime, sleepLeft, sleepNow, panicked, pureVars>>

Return(c) == Returned(c) /\ UNCHANGED clockVars

Next ==
  \/ CallNew(G)
  \/ CallNewSnowflake(G)
  \/ \E c \in Callers : Call(c)
  \/ \E c \in Callers : Lock(c)
  \/ \E c \in Callers : Update(c)
  \/ \E c \in Callers : Sleep(c)
  \/ \E c \in Callers : Wake(c)
  \/ \E c \in Callers : Return(c)

Spec == Init /\ [][Next]_vars

\* The scheduling of the callers: a goroutine that can take a step of NextID
\* takes it, a sleep ends once its duration has passed (the clock keeps
\* advancing), and the mutex is fair: a caller that can take it again and
\* again gets it.
Fairness ==
  \A c \in Callers :
    /\ SF_vars(Lock(c))
    /\ WF_vars(Update(c))
    /\ WF_vars(Sleep(c))
    /\ WF_vars(Wake(c))
    /\ WF_vars(Return(c))

SpecFair == Init /\ [][Next]_vars /\ Fairness

\* ------------------------------------------------------ the clock, kept
\* The wall clock time.Now() reads is the variable now, and time.Sleep
\* counts real time: a nanosecond of real time moves both (ClockTick), or only
\* the sleep when the wall clock stalls (ClockStall); a step of the wall
\* clock to another reading takes no real time (ClockJump).  hist is
\* "steady" while the clock read a tick at or after the start time at the
\* construction and has since neither moved backward nor fallen behind a
\* sleep, "forward" while it has not moved backward, "backward" after that.
Inside == {c \in Callers : pc[c] \in {"sleep", "sleeping"}}

\* The calls the clocked generator serves: enough to use up the sequence
\* numbers of one tick and call once more.
TimedCalls == Pow2(BitLenSequence) + 1

Running == sf[G] = "ready" /\ Len(returns[G]) < TimedCalls

Elapse(d) ==
  sleepLeft' = [c \in Callers |->
                  IF pc[c] = "sleeping" /\ sleepLeft[c] >= d THEN sleepLeft[c] - d
                  ELSE sleepLeft[c]]

Worse(h1, h2) ==
  IF "backward" \in {h1, h2} THEN "backward"
  ELSE IF "forward" \in {h1, h2} THEN "forward"
  ELSE "steady"

ClockTick ==
  /\ Running
  /\ now < MaxNow
  /\ now' = now + 1
  /\ Elapse(1)
  /\ UNCHANGED <<genVars, pc, overtime, sleepNow, mutex, returns, panicked, pureVars,
                 hist, steady, entry>>

ClockStall ==
  /\ Running
  /\ \E c \in Callers : pc[c] = "sleeping" /\ sleepLeft[c] >= 1
  /\ Elapse(1)
  /\ hist' = Worse(hist, "forward")
  /\ steady' = FALSE
  /\ UNCHANGED <<genVars, pc, overtime, sleepNow, mutex, returns, panicked, pureVars,
                 now, entry>>

ClockJump ==
  /\ Running
  /\ \E t \in Nanos \ {now} :
       /\ now' = t
       /\ hist' = IF t < now THEN "backward" ELSE hist
       /\ steady' = IF t < now /\ Inside # {} THEN FALSE ELSE steady
  /\ UNCHANGED <<genVars, callVars, pureVars, entry>>

\* The Settings of the clocked generator: any StartTime, and one machine
\* identifier, which plays no part in the timing.
TimedSettings ==
  {st \in SettingsSet :
     /\ st.MachineID = [isNil |-> FALSE, id |-> Pow2(BitLenMachineID) - 1, err |-> "nil"]
     /\ st.CheckMachineID.isNil}

\* The caller of the clocked generator: the calls of several callers are
\* serialized by the mutex, one caller makes them one after the other.
Solo == CHOOSE c \in Callers : \A d \in Callers : c <= d

\* New at the reading of the kept clock.
ClockedNew(g) ==
  /\ CallNewAt(g, TimedSettings, now)
  /\ hist' = IF sf'[g] = "ready" /\ currentElapsedTime(startTime'[g], now) < 0
             THEN "forward" ELSE hist
  /\ UNCHANGED <<now, steady, entry>>

ClockedCall(c) == Started(G) < TimedCalls /\ Call(c)

\* The steps of NextID that read the clock, at the reading of the kept clock.
ClockedUpdate(c) ==
  /\ UpdateAt(c, now)
  /\ entry' = [tick |-> currentElapsedTime(startTime[G], now),
               wrapped |-> pc'[c] = "sleep"]
  /\ steady' = (pc'[c] = "sleep")
  /\ UNCHANGED <<now, hist>>

ClockedSleep(c) == SleepAt(c, now) /\ UNCHANGED clockVars

\* time.Sleep returns once its duration has passed.
ClockedWake(c) ==
  /\ sleepLeft[c] <= 0
  /\ Woken(c)
  /\ steady' = FALSE
  /\ UNCHANGED <<now, hist, entry>>

ClockedReturn(c) ==
  /\ Returned(c)
  /\ entry' = NoEntry
  /\ UNCHANGED <<now, hist, steady>>

NextClock ==
  \/ ClockedNew(G)
  \/ ClockTick
  \/ ClockStall
  \/ ClockJump
  \/ ClockedCall(Solo)
  \/ Lock(Solo)
  \/ ClockedUpdate(Solo)
  \/ ClockedSleep(Solo)
  \/ ClockedWake(Solo)
  \/ ClockedReturn(Solo)

InitClock ==
  /\ InitGen /\ arg = NoArg /\ out = NoOut
  /\ now \in Nanos /\ hist = "steady" /\ steady = FALSE /\ entry = NoEntry

SpecClock == InitClock /\ [][NextClock]_vars

\* ------------------------------------------------ the clock, held at a tick
\* The wall clock stays in the tick it read at the construction: it moves
\* within the tick only, and a sleep passes in real time (ClockStall).
ClockWithinTick == ClockJump /\ toSnowflakeTime(now') = toSnowflakeTime(now)

\* New with any Settings at the reading of the kept clock.
FixedNew(g) == CallNewAt(g, SettingsSet, now) /\ UNCHANGED clockVars

NextFixed ==
  \/ FixedNew(G)
  \/ ClockWithinTick
  \/ ClockStall
  \/ ClockedCall(Solo)
  \/ Lock(Solo)
  \/ ClockedUpdate(Solo)
  \/ ClockedSleep(Solo)
  \/ ClockedWake(Solo)
  \/ ClockedReturn(Solo)

SpecFixed == InitClock /\ [][NextFixed]_vars

\* ----------------------------------------------- two generators, side by side
\* The calls each generator of the pair serves.
PairCalls == MaxCalls \div 2

\* A whole NextID call on generator g, with the reading t of the clock of
\* its process: the update, the sleep (which changes no field) and toID.
\* Calls on one generator are serialized by its mutex; the two generators
\* share nothing.
NextID(g) ==
  /\ sf[g] = "ready"
  /\ Len(returns[g]) < PairCalls
  /\ \E t \in Nanos :
       LET n == NextTick(elapsedTime[g], sequence[g], currentElapsedTime(startTime[g], t))
       IN  /\ elapsedTime' = [elapsedTime EXCEPT ![g] = n.elapsedTime]
           /\ sequence' = [sequence EXCEPT ![g] = n.sequence]
           /\ returns' = [returns EXCEPT ![g] =
                            Append(@, toID(n.elapsedTime, n.sequence, machineID[g]))]
  /\ UNCHANGED <<sf, newErr, newCall, startTime, machineID, pc, overtime, sleepLeft,
                 sleepNow, mutex, panicked, pureVars, clockVars>>

NextPair ==
  \/ \E g \in Gens : CallNew(g)
  \/ \E g \in Gens : NextID(g)

SpecPair == Init /\ [][NextPair]_vars

\* ------------------------------------------------- construction, recorded
\* A constructor call, with the call and what it did kept in newCall.
Record(g, ctor) ==
  /\ sf[g] = "none"
  /\ \E st \in SettingsSet, t \in Nanos, ifaces \in Ifaces :
       LET r == IF ctor = "New" THEN New(st, t, ifaces) ELSE NewSnowflake(st, t, ifaces)
       IN  /\ Constructed(g, r)
           /\ newCall' = [newCall EXCEPT ![g] =
                            [ctor |-> ctor, st |-> st, nowNs |-> t, ifaces |-> ifaces,
                             checked |-> r.checked, err |-> r.err]]
  /\ UNCHANGED <<callVars, pureVars, clockVars>>

RecordNew(g) == Record(g, "New")
RecordNewSnowflake(g) == Record(g, "NewSnowflake")

NextNew ==
  \/ RecordNew(G)
  \/ RecordNewSnowflake(G)

SpecNew == Init /\ [][NextNew]_vars

\* -------------------------------------------------- decoding and encoding
Uint64s == 0 .. (Pow2(Uint64Bits) - 1)

\* The arguments: any uint64 to decompose, and the fields of a generator
\* (elapsedTime up to one past the time field) to encode.
Args ==
  {[op |-> "decode", id |-> v, time |-> 0, sequence |-> 0, machine_id |-> 0] : v \in Uint64s}
    \cup {[op |-> "encode", id |-> 0, time |-> t, sequence |-> q, machine_id |-> m] :
            t \in 0 .. Pow2(BitLenTime), q \in 0 .. (Pow2(BitLenSequence) - 1),
            m \in AllMachineIDs}

InitPure == InitGen /\ arg \in Args /\ out = NoOut /\ FreeClock

\* Decompose(arg.id), and the encoding step applied to the fields it returned.
DecomposeThenEncode ==
  /\ arg.op = "decode"
  /\ ~out.done
  /\ LET d == Decompose(arg.id)
     IN  out' = [done |-> TRUE, id |-> d.id, msb |-> d.msb, time |-> d.time,
                 sequence |-> d.sequence, machine_id |-> d.machine_id,
                 enc |-> encode(d.time, d.sequence, d.machine_id), err |-> "nil"]
  /\ UNCHANGED <<arg, genVars, callVars, clockVars>>

\* toID on the fields of arg, and Decompose of the ID it returned.
EncodeThenDecompose ==
  /\ arg.op = "encode"
  /\ ~out.done
  /\ LET r == toID(arg.time, arg.sequence, arg.machine_id)
         d == Decompose(r.id)
     IN  out' = [done |-> TRUE, id |-> d.id, msb |-> d.msb, time |-> d.time,
                 sequence |-> d.sequence, machine_id |-> d.machine_id,
                 enc |-> r.id, err |-> r.err]
  /\ UNCHANGED <<arg, genVars, callVars, clockVars>>

NextPure ==
  \/ DecomposeThenEncode
  \/ EncodeThenDecompose

SpecPure == InitPure /\ [][NextPure]_vars

\* ---------------------------------------------------------------- history
\* The successful returns of generator g, in the order of the returns.
Issued(g) == SelectSeq(returns[g], LAMBDA r : r.err = "nil")

\* (tick1, seq1) < (tick2, seq2) in lexicographic order, decoded from two IDs
LexLess(id1, id2) ==
  \/ elapsedTimeOf(id1) < elapsedTimeOf(id2)
  \/ /\ elapsedTimeOf(id1) = elapsedTimeOf(id2)
     /\ SequenceNumber(id1) < SequenceNumber(id2)

\* Caller c takes the step of NextID from pc value a to pc value b.
Steps(c, a, b) == pc[c] = a /\ pc'[c] = b

\* ------------------------------------------------------------------ claims
\* C1: any two distinct successful NextID calls on one generator return
\* different values, whatever the clock reads and however the callers
\* interleave.
Uniqueness ==
  \A i, j \in 1 .. Len(returns[G]) :
    (i # j /\ returns[G][i].err = "nil" /\ returns[G][j].err = "nil")
      => returns[G][i].id # returns[G][j].id

\* Three IDs were issued, two of them in the same tick, while another
\* caller is inside NextID.
UniquenessWitness ==
  /\ Len(Issued(G)) >= 3
  /\ \E i \in 1 .. Len(Issued(G)) - 1 :
       elapsedTimeOf(Issued(G)[i].id) = elapsedTimeOf(Issued(G)[i + 1].id)
  /\ \E c \in Callers : pc[c] \in {"lock", "update", "sleeping"}

\* C2: successive successful IDs of one generator decode to strictly
\* increasing (tick, sequence) pairs, for every clock.
MonotonicTickSequence ==
  \A i \in 1 .. Len(Issued(G)) - 1 : LexLess(Issued(G)[i].id, Issued(G)[i + 1].id)

\* An ID of sequence 0 follows an ID of the last sequence of the tick
\* before it, and a later one stays in the new tick.
MonotonicWitness ==
  /\ Len(Issued(G)) >= 3
  /\ \E i \in 1 .. Len(Issued(G)) - 2 :
       /\ SequenceNumber(Issued(G)[i].id) = Pow2(BitLenSequence) - 1
       /\ elapsedTimeOf(Issued(G)[i + 1].id) = elapsedTimeOf(Issued(G)[i].id) + 1
       /\ SequenceNumber(Issued(G)[i + 1].id) = 0
       /\ elapsedTimeOf(Issued(G)[i + 2].id) = elapsedTimeOf(Issued(G)[i + 1].id)

\* C3: after a NextID call has returned ErrOverTimeLimit every later call
\* returns it too, and a call returns it exactly when elapsedTime is at or
\* past 2^BitLenTime after the update.
OverflowTerminal ==
  /\ [](\A i, j \in 1 .. Len(returns[G]) :
         (i < j /\ returns[G][i].err = "ErrOverTimeLimit")
           => returns[G][j].err = "ErrOverTimeLimit")
  /\ [][\A c \in Callers :
          Steps(c, "toID", "idle") =>
            /\ Len(returns'[G]) = Len(returns[G]) + 1
            /\ (returns'[G][Len(returns'[G])].err = "ErrOverTimeLimit")
                 <=> (elapsedTime[G] >= Pow2(BitLenTime))
            /\ returns'[G][Len(returns'[G])].err \in {"nil", "ErrOverTimeLimit"}]_vars

\* Two calls in a row have returned ErrOverTimeLimit after an ID was issued.
OverflowWitness ==
  /\ Len(returns[G]) >= 3
  /\ returns[G][1].err = "nil"
  /\ returns[G][Len(returns[G]) - 1].err = "ErrOverTimeLimit"
  /\ returns[G][Len(returns[G])].err = "ErrOverTimeLimit"

\* C4, as stated: the duration NextID sleeps for is strictly less than one
\* time unit.
SleepBelowOneUnit ==
  [][\A c \in Callers :
       Steps(c, "sleep", "sleeping") => sleepLeft'[c] < SnowflakeTimeUnit]_vars

\* C4, amended: the sleep is overtime time units less the part of the unit
\* the clock reading is into, with overtime >= 1: at most overtime units
\* for a reading at or after the Unix epoch (a full unit when overtime is 1
\* and the reading is on a unit boundary), and always less than overtime + 1
\* units.
SleepWithinOvertime ==
  [][\A c \in Callers :
       Steps(c, "sleep", "sleeping") =>
         /\ overtime[c] >= 1
         /\ sleepLeft'[c] < (overtime[c] + 1) * SnowflakeTimeUnit
         /\ sleepNow'[c] >= 0 => sleepLeft'[c] <= overtime[c] * SnowflakeTimeUnit]_vars

\* A caller sleeps for more than one time unit: elapsedTime was ahead of
\* the clock when the sequence wrapped.
SleepWitness ==
  \E c \in Callers :
    /\ pc[c] = "sleeping"
    /\ overtime[c] >= 2
    /\ sleepNow[c] >= 0
    /\ sleepLeft[c] > SnowflakeTimeUnit

\* C7: every ID a generator issues decodes to the machine id fixed at
\* construction, and no step after the construction changes machineID or
\* startTime.
MachineIDStable ==
  /\ [](\A i \in 1 .. Len(Issued(G)) : MachineID(Issued(G)[i].id) = machineID[G])
  /\ [][sf[G] # "none" => (machineID' = machineID /\ startTime' = startTime)]_vars

\* IDs of two ticks were issued by a generator whose machine id is not 0.
MachineIDWitness ==
  /\ machineID[G] # 0
  /\ Len(Issued(G)) >= 3
  /\ elapsedTimeOf(Issued(G)[1].id) # elapsedTimeOf(Issued(G)[3].id)

\* C9: no operation panics.
NoPanic == ~panicked

\* C5, as stated: for every uint64 v, the encoding of the fields
\* Decompose(v) returns is v with bit 63 cleared.
RoundTrip ==
  (out.done /\ arg.op = "decode")
    => out.enc = BitAnd(arg.id, Pow2(Uint64Bits - 1) - 1)

\* C6: for fields within their widths, the ID toID builds decomposes to
\* exactly those fields and msb 0 (the ID of the fields 0, 0, 0 among them).
DecodeInvertsEncode ==
  (out.done /\ arg.op = "encode" /\ arg.time < Pow2(BitLenTime))
    => /\ out.err = "nil"
       /\ out.id = out.enc
       /\ out.time = arg.time
       /\ out.sequence = arg.sequence
       /\ out.machine_id = arg.machine_id
       /\ out.msb = 0

\* The largest tick, sequence and machine id were encoded and decomposed.
DecodeInvertsEncodeWitness ==
  /\ out.done
  /\ arg.op = "encode"
  /\ arg.time = Pow2(BitLenTime) - 1
  /\ arg.sequence = Pow2(BitLenSequence) - 1
  /\ arg.machine_id = Pow2(BitLenMachineID) - 1
  /\ out.err = "nil"

\* C8: two generators with different machine ids never issue the same ID,
\* whatever their clocks and start times.
CrossGeneratorUniqueness ==
  (sf[1] = "ready" /\ sf[2] = "ready" /\ machineID[1] # machineID[2])
    => \A i \in 1 .. Len(Issued(1)), j \in 1 .. Len(Issued(2)) :
         Issued(1)[i].id # Issued(2)[j].id

\* Two generators with different machine ids and different start times
\* have each issued an ID with the same tick and sequence.
CrossGeneratorWitness ==
  /\ sf[1] = "ready" /\ sf[2] = "ready"
  /\ machineID[1] # machineID[2]
  /\ startTime[1] # startTime[2]
  /\ \E i \in 1 .. Len(Issued(1)), j \in 1 .. Len(Issued(2)) :
       /\ elapsedTimeOf(Issued(1)[i].id) = elapsedTimeOf(Issued(2)[j].id)
       /\ SequenceNumber(Issued(1)[i].id) = SequenceNumber(Issued(2)[j].id)

\* C10: New fails with ErrStartTimeAhead when the start time is after the
\* current time (an equal one is accepted), else with the supplier's error,
\* else with ErrInvalidMachineID when a validator rejects the identifier,
\* else returns a generator; a failure returns no generator, and the
\* validator sees only the identifier the supplier returned.
ConstructionOutcome ==
  LET k == newCall[G]
      m == IF k.st.MachineID.isNil THEN lower16BitPrivateIP(k.ifaces)
           ELSE [id |-> k.st.MachineID.id, err |-> k.st.MachineID.err]
      fails(e) == sf[G] = "nil" /\ newErr[G] = e
  IN  k.ctor = "New" =>
        /\ newErr[G] # "nil" <=> sf[G] = "nil"
        /\ \A i \in 1 .. Len(k.checked) : m.err = "nil" /\ k.checked[i] = m.id
        /\ IF ~k.st.StartTime.zero /\ k.st.StartTime.nano > k.nowNs
           THEN fails("ErrStartTimeAhead") /\ k.checked = << >>
           ELSE IF m.err # "nil"
           THEN fails(m.err) /\ k.checked = << >>
           ELSE IF ~k.st.CheckMachineID.isNil /\ m.id \notin k.st.CheckMachineID.accept
           THEN fails("ErrInvalidMachineID")
           ELSE sf[G] = "ready" /\ newErr[G] = "nil" /\ machineID[G] = m.id

\* New was given a start time equal to the current time and a supplier
\* that succeeded, and the validator rejected the identifier.
ConstructionWitness ==
  LET k == newCall[G]
  IN  /\ k.ctor = "New"
      /\ ~k.st.StartTime.zero /\ k.st.StartTime.nano = k.nowNs
      /\ ~k.st.MachineID.isNil
      /\ k.checked # << >>
      /\ newErr[G] = "ErrInvalidMachineID"

\* The callers inside the critical section of NextID.
InNextID == {c \in Callers : pc[c] \in {"update", "sleep", "sleeping", "toID"}}

\* C14: from one successful ID of a generator to the next, either the tick
\* increases and the sequence is 0, or the tick is the same and the sequence
\* is one more, never both; a call on the wrap path raises the tick by
\* exactly 1.
StepShape ==
  /\ [](\A i \in 1 .. Len(Issued(G)) - 1 :
         LET t1 == elapsedTimeOf(Issued(G)[i].id)
             s1 == SequenceNumber(Issued(G)[i].id)
             t2 == elapsedTimeOf(Issued(G)[i + 1].id)
             s2 == SequenceNumber(Issued(G)[i + 1].id)
         IN  /\ (t2 > t1 /\ s2 = 0) \/ (t2 = t1 /\ s2 = s1 + 1)
             /\ ~((t2 > t1 /\ s2 = 0) /\ (t2 = t1 /\ s2 = s1 + 1)))
  /\ [][\A c \in Callers :
          Steps(c, "update", "sleep") =>
            /\ elapsedTime'[G] = elapsedTime[G] + 1
            /\ sequence'[G] = 0]_vars

\* Three successive IDs show both shapes: the sequence goes up by one in a
\* tick, and then the tick goes up by more than one with sequence 0.
StepShapeWitness ==
  \E i \in 1 .. Len(Issued(G)) - 2 :
    /\ elapsedTimeOf(Issued(G)[i + 1].id) = elapsedTimeOf(Issued(G)[i].id)
    /\ SequenceNumber(Issued(G)[i + 1].id) = SequenceNumber(Issued(G)[i].id) + 1
    /\ elapsedTimeOf(Issued(G)[i + 2].id) > elapsedTimeOf(Issued(G)[i + 1].id) + 1
    /\ SequenceNumber(Issued(G)[i + 2].id) = 0

\* C15: at most one caller is between Lock and Unlock, and it is the holder
\* of the mutex; while a caller sleeps no other caller reads the clock,
\* changes the fields or returns; a caller takes the mutex only when nobody
\* is inside and returns holding it, so the IDs come in the order of the
\* lock acquisitions.
MutualExclusion ==
  /\ [](/\ Cardinality(InNextID) <= 1
        /\ \A c \in Callers : c \in InNextID <=> mutex[G] = c)
  /\ [][\A c \in Callers :
          pc[c] \in {"sleep", "sleeping"} =>
            /\ \A d \in Callers \ {c} :
                 /\ pc[d] \in {"idle", "lock", "panic"}
                 /\ pc'[d] \in {"idle", "lock", "panic"}
            /\ (pc'[c] = pc[c] =>
                  /\ elapsedTime' = elapsedTime
                  /\ sequence' = sequence
                  /\ returns' = returns)]_vars
  /\ [][\A c \in Callers :
          /\ Steps(c, "lock", "update") => (InNextID = {} /\ mutex[G] = 0)
          /\ Steps(c, "toID", "idle") =>
               (mutex[G] = c /\ InNextID = {c} /\ Len(returns'[G]) = Len(returns[G]) + 1)
          /\ returns' # returns => \E d \in Callers : Steps(d, "toID", "idle")]_vars

\* One caller sleeps with the mutex held while the other waits for it,
\* after an ID was issued.
MutualExclusionWitness ==
  \E c, d \in Callers :
    /\ pc[c] = "sleeping"
    /\ pc[d] = "lock"
    /\ mutex[G] = c
    /\ Len(Issued(G)) >= 1

\* C17: every ID NextID returns has bit 63 clear, a tick below 2^BitLenTime
\* and a sequence below 2^BitLenSequence.
GuardBit ==
  \A i \in 1 .. Len(Issued(G)) :
    /\ Issued(G)[i].id < Pow2(Uint64Bits - 1)
    /\ Decompose(Issued(G)[i].id).msb = 0
    /\ elapsedTimeOf(Issued(G)[i].id) < Pow2(BitLenTime)
    /\ SequenceNumber(Issued(G)[i].id) < Pow2(BitLenSequence)

\* The last tick of the time field was issued and the next call failed.
GuardBitWitness ==
  /\ Len(returns[G]) >= 2
  /\ \E i \in 1 .. Len(Issued(G)) :
       elapsedTimeOf(Issued(G)[i].id) = Pow2(BitLenTime) - 1
  /\ returns[G][Len(returns[G])].err = "ErrOverTimeLimit"

\* C18: in a constructed generator elapsedTime is never negative and never
\* decreases, whatever the clock reads, and sequence stays within the
\* sequence field.
StateInvariant ==
  /\ [](sf[G] = "ready" =>
          /\ elapsedTime[G] >= 0
          /\ sequence[G] \in 0 .. (Pow2(BitLenSequence) - 1))
  /\ [][sf[G] = "ready" => elapsedTime'[G] >= elapsedTime[G]]_vars

\* A call has failed past the time limit and a sequence has wrapped since.
StateInvariantWitness ==
  /\ sf[G] = "ready"
  /\ elapsedTime[G] > Pow2(BitLenTime)
  /\ sequence[G] = 0
  /\ Len(returns[G]) >= 3

\* C11: with a fair mutex and a clock that keeps advancing, every NextID
\* call on a generator returns, an ID or an error; the return releases the
\* mutex on both paths, so the mutex is held only by a caller inside NextID.
NoIndefiniteBlocking ==
  /\ \A c \in Callers : (pc[c] \in {"lock", "update", "sleep", "sleeping", "toID"})
                          ~> (pc[c] = "idle")
  /\ [][\A c \in Callers :
          Steps(c, "toID", "idle") =>
            /\ mutex[G] = c
            /\ mutex'[G] = 0
            /\ Len(returns'[G]) = Len(returns[G]) + 1]_vars
  /\ [](\A c \in Callers : mutex[G] = c => c \in InNextID)

\* A call has returned ErrOverTimeLimit, the mutex is free again, and the
\* other caller is waiting for it.
NoIndefiniteBlockingWitness ==
  /\ Len(returns[G]) >= 1
  /\ returns[G][Len(returns[G])].err = "ErrOverTimeLimit"
  /\ mutex[G] = 0
  /\ \E c \in Callers : pc[c] = "lock"

\* The tick the wall clock reads now, relative to the start time.
ClockTickNow == currentElapsedTime(startTime[G], now)

\* C16: on the sequence-wrap path the sleep is (lastTick_new - current) *
\* tick_unit - (now mod tick_unit), and when the clock runs forward at its
\* rate from the reading on entry to the end of the sleep, the clock tick at
\* the end of the sleep is at least lastTick_new, also when the clock was
\* behind lastTick on entry.
SleepReachesBoundary ==
  [][/\ Steps(Solo, "sleep", "sleeping") =>
          sleepLeft'[Solo] = (elapsedTime[G] - entry.tick) * SnowflakeTimeUnit
                               - GoMod(now, SnowflakeTimeUnit)
     /\ (Steps(Solo, "sleeping", "toID") /\ steady) => ClockTickNow >= elapsedTime[G]]_vars

\* A sleep ends at its boundary after the clock had moved backward before
\* the call, which found lastTick ahead of the clock.
SleepReachesBoundaryWitness ==
  /\ pc[Solo] = "sleeping"
  /\ sleepLeft[Solo] = 0
  /\ steady
  /\ hist = "backward"
  /\ entry.tick < elapsedTime[G] - 1
  /\ ClockTickNow = elapsedTime[G]

\* The successful IDs issued so far that carry tick k.
TickCount(k) ==
  Cardinality({i \in 1 .. Len(returns[G]) :
                 returns[G][i].err = "nil" /\ elapsedTimeOf(returns[G][i].id) = k})

LastReturn == returns'[G][Len(returns'[G])]

\* What C13 says of the call after 2^sequenceBits IDs of tick c, up to its
\* return value: lastTick advances to c + 1 and the call sleeps for a
\* strictly positive duration.
WrapAdvancesAndSleeps ==
  /\ (/\ pc[Solo] = "update" /\ pc'[Solo] # "update"
      /\ TickCount(elapsedTime[G]) = Pow2(BitLenSequence)
      /\ ClockTickNow <= elapsedTime[G])
       => (elapsedTime'[G] = elapsedTime[G] + 1 /\ pc'[Solo] = "sleep")
  /\ Steps(Solo, "sleep", "sleeping") => sleepLeft'[Solo] > 0

\* The call that returns after the wrap that followed 2^sequenceBits IDs of
\* tick elapsedTime - 1.
ReturnsAfterWrap ==
  /\ Steps(Solo, "toID", "idle")
  /\ entry.wrapped
  /\ TickCount(elapsedTime[G] - 1) = Pow2(BitLenSequence)

AtMostPerTick ==
  \A k \in 0 .. Pow2(BitLenTime) : TickCount(k) <= Pow2(BitLenSequence)

\* C13 as stated: when 2^sequenceBits IDs have been issued for tick c and the
\* clock reads tick c or earlier, the next call advances lastTick to c + 1,
\* sleeps for a strictly positive duration and returns without error an ID
\* with tick c + 1 and sequence 0; at most 2^sequenceBits successful IDs
\* carry the same tick.
WrapReturnsNextTick ==
  /\ [][/\ WrapAdvancesAndSleeps
        /\ ReturnsAfterWrap =>
             /\ LastReturn.err = "nil"
             /\ elapsedTimeOf(LastReturn.id) = elapsedTime[G]
             /\ SequenceNumber(LastReturn.id) = 0]_vars
  /\ []AtMostPerTick

\* C13, amended: the call returns the ID with tick c + 1 and sequence 0 when
\* c + 1 is below 2^timeBits, and ErrOverTimeLimit when c was the last tick
\* of the time field.
WrapReturnsNextTickOrLimit ==
  /\ [][/\ WrapAdvancesAndSleeps
        /\ ReturnsAfterWrap =>
             IF elapsedTime[G] < Pow2(BitLenTime)
             THEN /\ LastReturn.err = "nil"
                  /\ elapsedTimeOf(LastReturn.id) = elapsedTime[G]
                  /\ SequenceNumber(LastReturn.id) = 0
             ELSE LastReturn.err = "ErrOverTimeLimit"]_vars
  /\ []AtMostPerTick

\* The sequence numbers of a tick are used up, the call after them has
\* advanced lastTick, slept, and is about to return the ID of the next tick.
WrapWitness ==
  /\ pc[Solo] = "toID"
  /\ entry.wrapped
  /\ TickCount(elapsedTime[G] - 1) = Pow2(BitLenSequence)
  /\ elapsedTime[G] < Pow2(BitLenTime)
  /\ hist = "steady"

\* C19: the first successful call on a fresh generator returns sequence 0
\* and every issued ID has tick >= 1; a first call that reads a tick at or
\* before the start tick takes the wrap path: lastTick becomes 1, the call
\* sleeps and returns tick 1, sequence 0.
FirstID ==
  /\ [](/\ Len(Issued(G)) >= 1 => SequenceNumber(Issued(G)[1].id) = 0
        /\ \A i \in 1 .. Len(Issued(G)) : elapsedTimeOf(Issued(G)[i].id) >= 1)
  /\ [][/\ (/\ pc[Solo] = "update" /\ pc'[Solo] # "update"
            /\ returns[G] = << >>
            /\ ClockTickNow <= 0)
             => (pc'[Solo] = "sleep" /\ elapsedTime'[G] = 1 /\ sequence'[G] = 0)
        /\ (Steps(Solo, "toID", "idle") /\ returns[G] = << >> /\ entry.tick <= 0)
             => /\ entry.wrapped
                /\ LastReturn.err = "nil"
                /\ elapsedTimeOf(LastReturn.id) = 1
                /\ SequenceNumber(LastReturn.id) = 0]_vars

\* The first call found the clock before the start time, took the wrap path
\* and is about to return tick 1, sequence 0.
FirstIDWitness ==
  /\ pc[Solo] = "toID"
  /\ returns[G] = << >>
  /\ entry.wrapped
  /\ entry.tick < 0
  /\ elapsedTime[G] = 1
  /\ sequence[G] = 0

\* A successful return of the call inside.
ReturnsID == Steps(Solo, "toID", "idle") /\ LastReturn.err = "nil"

\* C20 as stated: if the clock never moves backward from the construction
\* onward, the tick of an ID is at most the clock tick at the moment its call
\* returns, and lastTick <= current at the start of every call; with any
\* clock the returned tick is at least the tick the call read on entry.
NoFutureTimestamps ==
  [][/\ (hist # "backward" /\ ReturnsID) => elapsedTimeOf(LastReturn.id) <= ClockTickNow
     /\ (hist # "backward" /\ pc[Solo] = "update" /\ pc'[Solo] # "update")
          => elapsedTime[G] <= ClockTickNow
     /\ ReturnsID => elapsedTimeOf(LastReturn.id) >= entry.tick]_vars

\* C20, amended: the same, for a clock that read a tick at or after the
\* start time at the construction and has since neither moved backward nor
\* fallen behind real time while a call slept.
NoFutureTimestampsSteady ==
  [][/\ (hist = "steady" /\ ReturnsID) => elapsedTimeOf(LastReturn.id) <= ClockTickNow
     /\ (hist = "steady" /\ pc[Solo] = "update" /\ pc'[Solo] # "update")
          => elapsedTime[G] <= ClockTickNow
     /\ ReturnsID => elapsedTimeOf(LastReturn.id) >= entry.tick]_vars

\* Under a steady clock a call that slept is about to return the tick the
\* clock has just reached.
NoFutureWitness ==
  /\ pc[Solo] = "toID"
  /\ hist = "steady"
  /\ entry.wrapped
  /\ Len(returns[G]) >= 1
  /\ ClockTickNow = elapsedTime[G]
  /\ elapsedTime[G] < Pow2(BitLenTime)

\* The k-th call returned the ID of tick c, sequence k - 1 and the machine
\* identifier of the generator.
KthReturn(k, c) ==
  /\ returns[G][k].err = "nil"
  /\ Decompose(returns[G][k].id).time = c
  /\ Decompose(returns[G][k].id).sequence = k - 1
  /\ Decompose(returns[G][k].id).machine_id = machineID[G]

FirstReturns ==
  {k \in 1 .. Len(returns[G]) : k <= Pow2(BitLenSequence)}

\* C12 as stated: with the clock fixed at tick c >= 1 after the epoch, the
\* k-th call on a fresh generator, 1 <= k <= 2^sequenceBits, returns an ID
\* decoding to tick c, sequence k - 1 and the machine identifier.
SameTickSequence ==
  (sf[G] = "ready" /\ ClockTickNow >= 1)
    => \A k \in FirstReturns : KthReturn(k, ClockTickNow)

\* C12, amended: that holds for 1 <= c < 2^timeBits; with the clock fixed at
\* a tick c >= 2^timeBits every call returns ErrOverTimeLimit.
SameTickSequenceInRange ==
  sf[G] = "ready"
    => /\ (ClockTickNow >= 1 /\ ClockTickNow < Pow2(BitLenTime))
            => \A k \in FirstReturns : KthReturn(k, ClockTickNow)
       /\ ClockTickNow >= Pow2(BitLenTime)
            => \A k \in FirstReturns : returns[G][k].err = "ErrOverTimeLimit"

\* With the clock fixed one tick after the epoch, the calls have used up the
\* sequence numbers of tick 1.
SameTickWitness ==
  /\ sf[G] = "ready"
  /\ ClockTickNow = 1
  /\ Len(returns[G]) = Pow2(BitLenSequence)
  /\ \A k \in FirstReturns : KthReturn(k, 1)
  /\ machineID[G] # 0

=============================================================================
